---- MODULE Spec2Model ----
(***************************************************************************)
(* Token streaming of the RAG chat frontend: App.handleSendMessage         *)
(* (frontend/src/App.js) on top of streamMessage / sendMessage /           *)
(* getSimilarDocuments (frontend/src/services/api.js).                     *)
(*                                                                         *)
(* Text is a sequence of one-character strings, so that trimming, prefix   *)
(* tests, line splitting and JSON decoding are computed, not assumed.      *)
(* JSON values are restricted to flat objects with string members.         *)
(***************************************************************************)
EXTENDS Integers, Sequences, FiniteSets, TLC

(***************************************************************************)
(* Text helpers (String.prototype.trim / startsWith / indexOf / slice)     *)
(***************************************************************************)
WS == {" ", "\t", "\r", "\n"}

DATA == <<"d", "a", "t", "a", ":">>

DONE == <<"[", "D", "O", "N", "E", "]">>

RECURSIVE TrimStart(_)
TrimStart(s) ==
  IF s # <<>> /\ Head(s) \in WS THEN TrimStart(Tail(s)) ELSE s

RECURSIVE TrimEnd(_)
TrimEnd(s) ==
  IF s # <<>> /\ s[Len(s)] \in WS THEN TrimEnd(SubSeq(s, 1, Len(s) - 1)) ELSE s

Trim(s) == TrimEnd(TrimStart(s))

StartsWith(s, p) == Len(s) >= Len(p) /\ SubSeq(s, 1, Len(p)) = p

\* buffer.indexOf('\n'), 1-based; 0 when there is none
IndexOfNL(s) ==
  IF \E i \in 1..Len(s) : s[i] = "\n"
  THEN CHOOSE i \in 1..Len(s) : s[i] = "\n" /\ \A j \in 1..(i - 1) : s[j] # "\n"
  ELSE 0

RECURSIVE Concat(_)
Concat(ts) == IF ts = <<>> THEN <<>> ELSE Head(ts) \o Concat(Tail(ts))

(***************************************************************************)
(* JSON.parse, restricted to objects whose members are strings without     *)
(* escapes.  The result keeps the members the code reads; a member that    *)
(* is absent reads as the empty text (undefined and '' are both falsy in   *)
(* `obj.token || obj.text || ''` and in `data?.answer || ''`).             *)
(***************************************************************************)
RECURSIVE SkipWS(_, _)
SkipWS(s, i) == IF i <= Len(s) /\ s[i] \in WS THEN SkipWS(s, i + 1) ELSE i

\* index of the quote closing a string whose first character is at i; 0 if none
StrEnd(s, i) ==
  IF \E j \in i..Len(s) : s[j] = "\""
  THEN CHOOSE j \in i..Len(s) : s[j] = "\"" /\ \A k \in i..(j - 1) : s[k] # "\""
  ELSE 0

KeyToken == <<"t", "o", "k", "e", "n">>

KeyText == <<"t", "e", "x", "t">>

KeyAnswer == <<"a", "n", "s", "w", "e", "r">>

ParseFail == [ok |-> FALSE, token |-> <<>>, text |-> <<>>, answer |-> <<>>]

RECURSIVE ParseMembers(_, _, _)
ParseMembers(s, i, obj) ==
  IF i > Len(s) \/ s[i] # "\"" THEN ParseFail
  ELSE LET ke == StrEnd(s, i + 1) IN
    IF ke = 0 THEN ParseFail
    ELSE LET key == SubSeq(s, i + 1, ke - 1)
             c   == SkipWS(s, ke + 1) IN
      IF c > Len(s) \/ s[c] # ":" THEN ParseFail
      ELSE LET v == SkipWS(s, c + 1) IN
        IF v > Len(s) \/ s[v] # "\"" THEN ParseFail
        ELSE LET ve == StrEnd(s, v + 1) IN
          IF ve = 0 THEN ParseFail
          ELSE LET val  == SubSeq(s, v + 1, ve - 1)
                   obj2 == IF key = KeyToken THEN [obj EXCEPT !.token = val]
                           ELSE IF key = KeyText THEN [obj EXCEPT !.text = val]
                           ELSE IF key = KeyAnswer
                                THEN [obj EXCEPT !.answer = val]
                           ELSE obj
                   n    == SkipWS(s, ve + 1) IN
            IF n > Len(s) THEN ParseFail
            ELSE IF s[n] = "," THEN ParseMembers(s, SkipWS(s, n + 1), obj2)
            ELSE IF s[n] = "}" /\ SkipWS(s, n + 1) = Len(s) + 1 THEN obj2
            ELSE ParseFail

JSONParse(s) ==
  LET b == SkipWS(s, 1) IN
  IF b > Len(s) \/ s[b] # "{" THEN ParseFail
  ELSE LET m == SkipWS(s, b + 1)
           empty == [ok |-> TRUE, token |-> <<>>, text |-> <<>>,
                     answer |-> <<>>] IN
    IF m <= Len(s) /\ s[m] = "}"
    THEN (IF SkipWS(s, m + 1) = Len(s) + 1 THEN empty ELSE ParseFail)
    ELSE ParseMembers(s, m, empty)

(***************************************************************************)
(* Payload decoding shared by both transports: what one payload makes the  *)
(* transport do.  kind "done": stream ends; "emit": onToken(text);         *)
(* "none": nothing.                                                        *)
(***************************************************************************)
ActDone == [kind |-> "done", text |-> <<>>]

ActNone == [kind |-> "none", text |-> <<>>]

ActEmit(t) == [kind |-> "emit", text |-> t]

\* variant: the text member is preferred to the token member
DecodeTextPrefersText(payload) ==
  IF StartsWith(payload, <<"{">>)
  THEN LET obj == JSONParse(payload) IN
       IF ~obj.ok THEN ActEmit(payload)
       ELSE LET text == IF obj.text # <<>> THEN obj.text ELSE obj.token IN
            IF text # <<>> THEN ActEmit(text) ELSE ActNone
  ELSE IF payload # <<>> THEN ActEmit(payload) ELSE ActNone

\* variant: a payload that does not parse is discarded
DecodeTextDropsMalformed(payload) ==
  IF StartsWith(payload, <<"{">>)
  THEN LET obj == JSONParse(payload) IN
       IF ~obj.ok THEN ActNone
       ELSE LET text == IF obj.token # <<>> THEN obj.token ELSE obj.text IN
            IF text # <<>> THEN ActEmit(text) ELSE ActNone
  ELSE IF payload # <<>> THEN ActEmit(payload) ELSE ActNone

\* variant: the text is passed on without the test `if (text)`
DecodeTextEmitsEmpty(payload) ==
  IF StartsWith(payload, <<"{">>)
  THEN LET obj == JSONParse(payload) IN
       IF ~obj.ok THEN ActEmit(payload)
       ELSE ActEmit(IF obj.token # <<>> THEN obj.token ELSE obj.text)
  ELSE ActEmit(payload)

\* the try/catch body: JSON object -> token || text || '', otherwise raw
DecodeText(payload) ==
  IF StartsWith(payload, <<"{">>)
  THEN LET obj == JSONParse(payload) IN
       IF ~obj.ok THEN ActEmit(payload)
       ELSE LET text == IF obj.token # <<>> THEN obj.token ELSE obj.text IN
            IF text # <<>> THEN ActEmit(text) ELSE ActNone
  ELSE IF payload # <<>> THEN ActEmit(payload) ELSE ActNone

\* es.onmessage
DecodeEvent(payload) ==
  IF payload = DONE THEN ActDone ELSE DecodeText(payload)

\* one line of the chunked body
DecodeLine(line) ==
  LET trimmed == Trim(line) IN
  IF trimmed = <<>> THEN ActNone
  ELSE IF StartsWith(trimmed, DATA)
       THEN LET payload == Trim(SubSeq(trimmed, 6, Len(trimmed))) IN
            IF payload = DONE THEN ActDone ELSE DecodeText(payload)
       ELSE ActEmit(trimmed)

(***************************************************************************)
(* Bounds and inputs                                                       *)
(***************************************************************************)
MaxQueries == 1

\* accepted submissions in the model of several queries (SpecChat)
MaxChats == 2

MaxEvents == 1

MaxRecords == 2

TickMs == 600000

MaxElapsed == 1200000

\* setTimeout(() => controller.abort(), 600000)
TimeoutMs == 600000

NL == <<"\n">>

SP == <<" ">>

Q(s) == <<"\"">> \o s \o <<"\"">>

\* {"token":"<t>"}
JsonToken(t) == <<"{">> \o Q(KeyToken) \o <<":">> \o Q(t) \o <<"}">>

Hello == <<"H", "e", "l", "l", "o">>

Questions == {<<"q">>}

\* data payloads the event-stream server may send: the marker, a token as
\* raw text and the same token as a JSON object (DecodePayloads has the
\* variety of payloads)
EsPayloads == {DONE, <<"a">>, JsonToken(<<"a">>)}

\* bodies of chunked responses in the full model
MainBodies ==
  { <<"c">> \o NL \o DATA \o DONE \o NL \o <<"z">> \o NL,
    <<"c">> \o NL \o <<"e">> }

\* {"answer":"<a>"}
JsonAnswer(a) == <<"{">> \o Q(KeyAnswer) \o <<":">> \o Q(a) \o <<"}">>

\* bodies of responses declared application/json: an answer, written on
\* several lines; an empty answer; a body cut short
JsonBodies ==
  { <<"{">> \o NL \o Q(KeyAnswer) \o <<":">> \o Q(<<"J">>) \o NL \o <<"}">> \o NL,
    JsonAnswer(<<>>),
    <<"{">> \o Q(KeyAnswer) \o <<":">> \o <<"\"", "J">> }

\* kind: "http_error" (status not 2xx), "nobody" (no readable body), "json"
\* (2xx, content type application/json), "stream" (2xx, any other type)
Responses ==
  { [kind |-> "http_error", body |-> <<>>],
    [kind |-> "nobody", body |-> <<>>] }
  \cup { [kind |-> "json", body |-> b] : b \in JsonBodies }
  \cup { [kind |-> "stream", body |-> b] : b \in MainBodies }

\* records the chunked server may send, and the bodies made of them
Records ==
  { DATA \o SP \o JsonToken(Hello) \o NL,
    DATA \o SP \o DONE \o NL,
    <<"x">> \o NL,
    <<" ", "\r">> \o NL,
    <<"y">> }

RECURSIVE BodiesOf(_)
BodiesOf(n) ==
  IF n = 0 THEN {<<>>}
  ELSE LET shorter == BodiesOf(n - 1) IN
       shorter \cup { b \o r : b \in shorter, r \in Records }

ReadBodies == BodiesOf(MaxRecords)

\* {"text":"<t>"}
JsonText(t) == <<"{">> \o Q(KeyText) \o <<":">> \o Q(t) \o <<"}">>

\* {"token":"<k>","text":"<t>"}
JsonBoth(k, t) ==
  <<"{">> \o Q(KeyToken) \o <<":">> \o Q(k) \o <<",">> \o Q(KeyText) \o <<":">>
    \o Q(t) \o <<"}">>

\* payloads for the comparison of the two decoders: the marker, plain text,
\* JSON objects with either, both or no member, text that looks like JSON but
\* is not, and payloads with blanks around them
DecodePayloads ==
  { DONE, <<>>, <<"a">>,
    JsonToken(<<"b">>), JsonText(<<"t">>), JsonBoth(<<"b">>, <<"t">>),
    JsonBoth(<<>>, <<"t">>), <<"{", "}">>,
    <<"{", "x">>,
    SP \o DONE, DONE \o SP, SP \o <<"a">>, SP \o JsonToken(<<"b">>) }

\* the body made of the record data:<payload> followed by the record z
DecodeBody(payload) == DATA \o payload \o NL \o <<"z">> \o NL

DecodeBodies == {DecodeBody(payload) : payload \in DecodePayloads}

\* a body with a whitespace-only line and an empty line before the record z
BlankBodies == { <<" ", "\r">> \o NL \o NL \o <<"z">> \o NL }

\* sizes a read may have: up to the longest body
ChunkSizes ==
  LET lens == {Len(b) : b \in ReadBodies \cup MainBodies \cup DecodeBodies
                                \cup BlankBodies} IN
  1..(CHOOSE n \in lens : \A m \in lens : m <= n)

SourceLists == {<<"doc1">>}

FallbackReplies ==
  { [answer |-> <<"X">>, sources |-> s] : s \in SourceLists \cup {<<>>} }

\* messages of the errors makeRequest throws inside sendMessage
Causes == {<<"5", "0", "0">>}

\* 'Failed to send message: ' (api.js), abbreviated
SendFailPrefix == <<"F", ":", " ">>

\* 'Извините, произошла ошибка при обработке вашего запроса: ' (App.js), abbreviated
ErrorTextPrefix == <<"E", ":", " ">>

(***************************************************************************)
(* Values a caller may pass for question, query and k.  A value has a type *)
(* (typeof; null is kept apart from the other objects) and, when it is a   *)
(* string or a number, its text or its integer.                            *)
(***************************************************************************)
Str(s) == [type |-> "string", val |-> s, num |-> 0]

Num(n) == [type |-> "number", val |-> <<>>, num |-> n]

Undefined == [type |-> "undefined", val |-> <<>>, num |-> 0]

Null == [type |-> "null", val |-> <<>>, num |-> 0]

Obj == [type |-> "object", val |-> <<>>, num |-> 0]

Args ==
  { Str(<<"q">>), Str(<<" ", "q", " ">>), Str(<<>>), Str(<<" ">>),
    Str(<<"\t", "\n">>), Undefined, Null, Num(0), Num(5), Obj }

Ks == {0, 1, 4, 20, 21}

\* !question
Falsy(v) ==
  \/ v.type \in {"undefined", "null"}
  \/ v.type = "string" /\ v.val = <<>>
  \/ v.type = "number" /\ v.num = 0

\* !question || typeof question !== 'string' || question.trim() === ''
RejectsQuestion(v) ==
  Falsy(v) \/ v.type # "string" \/ Trim(v.val) = <<>>

\* variant: only the upper limit is tested
RejectsKAbove(k) == k > 20

\* k < 1 || k > 20
RejectsK(k) == k < 1 \/ k > 20

NoCall == [fn |-> "none", arg |-> Undefined, k |-> 0, outcome |-> "none",
           requests |-> 0]

ApiCalls ==
  { [fn |-> f, arg |-> a, k |-> 4, outcome |-> "none", requests |-> 0] :
      f \in {"streamMessage", "sendMessage"}, a \in Args }
  \cup { [fn |-> "getSimilarDocuments", arg |-> a, k |-> k, outcome |-> "none",
          requests |-> 0] : a \in Args, k \in Ks }

(***************************************************************************)
(* State                                                                   *)
(***************************************************************************)
VARIABLES
  messages,     \* App state: messages, newest first
  isLoading,    \* App state
  pc,           \* handleSendMessage: "idle", "stream", "sources", "fallback"
  botMsgId,     \* id of the bot message of the query in flight
  accumulated,  \* let accumulated (text received so far)
  tokenCount,   \* let tokenCount
  dateNow,      \* last value read from Date.now()
  nq,           \* number of accepted submissions
  sm,           \* streamMessage: "none", "es", "post", "postRead", "get",
                \* "getRead", "resolved", "rejected"
  timerArmed,   \* timeoutId is pending
  aborted,      \* controller.signal.aborted
  elapsed,      \* milliseconds since streamMessage was called
  esOpen,       \* the EventSource exists and is not closed
  esOpened,     \* let opened
  esDone,       \* let done
  esEvents,     \* number of message events delivered
  esLast,       \* e.data of the last message event delivered; forgotten
                \* when the event stream reports an error
  rest,         \* part of the response body not yet read
  buffer,       \* let buffer
  body,         \* the whole body of the response being read
  tokens,       \* history: arguments of every onToken call of the query
  tokBy,        \* history: the transport that made each of these calls
  frames,       \* history: texts of the bot message the token callback has
                \* committed to the page, in order
  rsTokens,     \* history: onToken calls made while reading this response
  cuts,         \* history: kinds of places where a read ended inside a line
  endedBy,      \* history: how the call resolved: "none", "done", "eof", "json",
                \* "eserror"
  failed,       \* history: transports of this call that failed, in order
  caught,       \* esErr / postErr: why the pending request was issued; "none"
                \* when no request is pending after a catch
  attempts,     \* history: transports started by this call, in order
  sendCount,    \* history: sendMessage requests issued for the query
  doneSeen,     \* history: [DONE] was observed during this call
  smResult,     \* history: "none", "resolved", "error", "timeout"
  srcResult,    \* history: outcome of the source lookup: "none", "ok", "err"
  ignored,      \* history: a submission has been turned down since the last
                \* accepted one
  fbResult,     \* history: outcome of the fallback request
  api           \* a direct call of an exported function of api.js: the
                \* function, its arguments, its outcome ("none" before the
                \* call, "invalid", "issued") and the requests it has issued

vars == <<messages, isLoading, pc, botMsgId, accumulated, tokenCount, dateNow,
          nq, sm, timerArmed, aborted, elapsed, esOpen, esOpened, esDone,
          esEvents, esLast, rest, buffer, body, tokens, tokBy, frames, rsTokens,
          cuts, endedBy,
          failed, caught, attempts, sendCount, doneSeen, smResult, srcResult,
          ignored, fbResult, api>>

esVars == <<esOpen, esOpened, esDone, esEvents, esLast>>

rdVars == <<rest, buffer, body, rsTokens, cuts>>

rdHist == <<body, rsTokens, cuts>>

idVars == <<botMsgId, dateNow, nq, isLoading, srcResult, ignored, api>>

NoFallback == [kind |-> "none", answer |-> <<>>, sources |-> <<>>, message |-> <<>>]

(***************************************************************************)
(* Message updates of App.js                                               *)
(***************************************************************************)
UserMsg(id, text) ==
  [id |-> id, sender |-> "user", text |-> Trim(text), sources |-> <<>>,
   isStreaming |-> FALSE, showTyping |-> FALSE, isError |-> FALSE]

BaseBotMsg(id) ==
  [id |-> id, sender |-> "bot", text |-> <<>>, sources |-> <<>>,
   isStreaming |-> TRUE, showTyping |-> FALSE, isError |-> FALSE]

\* variant: the list is rendered as it is kept, newest first
DisplayedAsKept(msgs) == msgs

\* MessageList: messages.slice().reverse().map(...): the messages in the
\* order they are displayed, top to bottom
Displayed(msgs) == [i \in 1..Len(msgs) |-> msgs[Len(msgs) + 1 - i]]

\* variant: a separator is put between the tokens
AccumulateSpaced(acc, chunk) == acc \o <<" ">> \o chunk

\* let accumulated += chunk
Accumulate(acc, chunk) == acc \o chunk

\* the token callback's setMessages
TokenUpdate(msgs, id, acc, cnt) ==
  [i \in 1..Len(msgs) |->
     IF msgs[i].id = id
     THEN [msgs[i] EXCEPT !.text = acc, !.isStreaming = TRUE,
                     !.showTyping = (cnt % 5 = 0)]
     ELSE msgs[i]]

\* variant: only the typing indicator is cleared
StreamEndUpdateKeepsFlag(msgs, id) ==
  [i \in 1..Len(msgs) |->
     IF msgs[i].id = id
     THEN [msgs[i] EXCEPT !.showTyping = FALSE]
     ELSE msgs[i]]

\* setMessages after streamMessage has resolved
StreamEndUpdate(msgs, id) ==
  [i \in 1..Len(msgs) |->
     IF msgs[i].id = id
     THEN [msgs[i] EXCEPT !.isStreaming = FALSE, !.showTyping = FALSE]
     ELSE msgs[i]]

\* variant: the sources are attached to every bot message
SourcesUpdateAllBots(msgs, id, sources) ==
  [i \in 1..Len(msgs) |->
     IF msgs[i].sender = "bot"
     THEN [msgs[i] EXCEPT !.sources = sources]
     ELSE msgs[i]]

SourcesUpdate(msgs, id, sources) ==
  [i \in 1..Len(msgs) |->
     IF msgs[i].id = id
     THEN [msgs[i] EXCEPT !.sources = sources]
     ELSE msgs[i]]

\* variant: the answer is appended to what was streamed
FallbackUpdateAppends(msgs, id, response) ==
  [i \in 1..Len(msgs) |->
     IF msgs[i].id = id
     THEN [msgs[i] EXCEPT !.text = msgs[i].text \o response.answer,
                     !.sources = response.sources,
                     !.isStreaming = FALSE, !.showTyping = FALSE]
     ELSE msgs[i]]

FallbackUpdate(msgs, id, response) ==
  [i \in 1..Len(msgs) |->
     IF msgs[i].id = id
     THEN [msgs[i] EXCEPT !.text = response.answer, !.sources = response.sources,
                     !.isStreaming = FALSE, !.showTyping = FALSE]
     ELSE msgs[i]]

\* variant: the error text does not carry the error's message
ErrorUpdateGeneric(msgs, id, message) ==
  [i \in 1..Len(msgs) |->
     IF msgs[i].id = id
     THEN [msgs[i] EXCEPT !.text = ErrorTextPrefix, !.isError = TRUE,
                     !.isStreaming = FALSE, !.showTyping = FALSE]
     ELSE msgs[i]]

ErrorUpdate(msgs, id, message) ==
  [i \in 1..Len(msgs) |->
     IF msgs[i].id = id
     THEN [msgs[i] EXCEPT !.text = ErrorTextPrefix \o message, !.isError = TRUE,
                     !.isStreaming = FALSE, !.showTyping = FALSE]
     ELSE msgs[i]]

Init ==
  /\ messages = <<>>
  /\ isLoading = FALSE
  /\ pc = "idle"
  /\ botMsgId = 0
  /\ accumulated = <<>>
  /\ tokenCount = 0
  /\ dateNow = 0
  /\ nq = 0
  /\ sm = "none"
  /\ timerArmed = FALSE
  /\ aborted = FALSE
  /\ elapsed = 0
  /\ esOpen = FALSE
  /\ esOpened = FALSE
  /\ esDone = FALSE
  /\ esEvents = 0
  /\ esLast = <<>>
  /\ rest = <<>>
  /\ buffer = <<>>
  /\ body = <<>>
  /\ tokens = <<>>
  /\ tokBy = <<>>
  /\ frames = <<>>
  /\ rsTokens = <<>>
  /\ cuts = {}
  /\ endedBy = "none"
  /\ failed = <<>>
  /\ caught = "none"
  /\ attempts = <<>>
  /\ sendCount = 0
  /\ doneSeen = FALSE
  /\ smResult = "none"
  /\ srcResult = "none"
  /\ ignored = FALSE
  /\ fbResult = NoFallback
  /\ api = NoCall

tokVars == <<accumulated, tokenCount, tokens, tokBy, frames>>

setVars == <<sm, smResult, timerArmed, pc, sendCount, attempts, messages,
            endedBy, failed, caught>>

ReadStates == {"postRead", "getRead"}

\* the synchronous line loop of readStream is running
Busy == sm \in ReadStates /\ IndexOfNL(buffer) # 0

(***************************************************************************)
(* Continuations: what runs, without yielding, when streamMessage settles  *)
(* or a transport attempt fails                                            *)
(***************************************************************************)
BotIds(msgs) ==
  {msgs[i].id : i \in {j \in 1..Len(msgs) : msgs[j].sender = "bot"}}

MsgOf(msgs, id) == msgs[CHOOSE i \in 1..Len(msgs) : msgs[i].id = id]

\* variant: the update waits for the next render and replaces the text
\* shown last
FlushSyncBatched(shown, text) ==
  IF shown = <<>> THEN <<text>> ELSE [shown EXCEPT ![Len(shown)] = text]

\* flushSync(() => setMessages(...)): the update is rendered before the
\* callback returns; shown are the texts rendered so far
FlushSync(shown, text) == Append(shown, text)

\* onToken(chunk), called by transport by: the accumulator and what the
\* callback's update puts on the page
ApplyTok(chunk, by) ==
  /\ accumulated' = Accumulate(accumulated, chunk)
  /\ tokenCount' = tokenCount + 1
  /\ tokens' = Append(tokens, chunk)
  /\ tokBy' = Append(tokBy, by)
  /\ frames' = FlushSync(frames,
                         MsgOf(TokenUpdate(messages, botMsgId, accumulated',
                                           tokenCount'), botMsgId).text)

\* onToken(chunk) throws: the callback has added the chunk to the accumulator
\* (App.js:43-44) and throws in flushSync, nothing is rendered
ApplyTokThrown(chunk, by) ==
  /\ accumulated' = Accumulate(accumulated, chunk)
  /\ tokenCount' = tokenCount + 1
  /\ tokens' = Append(tokens, chunk)
  /\ tokBy' = Append(tokBy, by)
  /\ frames' = frames

\* `try { ... onToken(text); } catch { onToken(payload); }` when onToken(text)
\* throws: the callback is called again, with the payload; again: this call
\* throws as well
ApplyTokTwice(text, payload, by, again) ==
  /\ accumulated' = Accumulate(Accumulate(accumulated, text), payload)
  /\ tokenCount' = tokenCount + 2
  /\ tokens' = tokens \o <<text, payload>>
  /\ tokBy' = tokBy \o <<by, by>>
  /\ frames' = IF again THEN frames
                ELSE FlushSync(frames,
                               MsgOf(TokenUpdate(messages, botMsgId,
                                                 accumulated', tokenCount'),
                                     botMsgId).text)

\* the locals of streamMessage: the unread body, readStream's buffer and the
\* time since the call; they are gone once the call has settled
Locals(r, b, e) ==
  LET gone == sm' \in {"resolved", "rejected"} IN
  /\ rest' = IF gone THEN <<>> ELSE r
  /\ buffer' = IF gone THEN <<>> ELSE b
  /\ elapsed' = IF gone THEN 0 ELSE e

KeepLocals == Locals(rest, buffer, elapsed)

\* variant: the return after a successful attempt is missing, the next
\* transport is opened as well
AfterSuccessFallsThrough(att) ==
  LET last == att[Len(att)] IN
  IF last = "get" THEN att
  ELSE Append(att, IF last = "es" THEN "post" ELSE "get")

\* `await tryEventSource(); return;` / `await readStream(resp); return;`:
\* the transports started by the call once an attempt has succeeded
AfterSuccess(att) == att

\* nothing settles; the messages become msgs
Stay(msgs) ==
  /\ messages' = msgs
  /\ UNCHANGED <<sm, smResult, timerArmed, pc, sendCount, attempts, endedBy,
                 failed, caught>>

\* streamMessage resolves (finally: clearTimeout); App clears isStreaming and
\* issues getSimilarDocuments(text, 4)
Resolved(msgs, how) ==
  /\ sm' = "resolved"
  /\ endedBy' = how
  /\ smResult' = "resolved"
  /\ timerArmed' = FALSE
  /\ messages' = StreamEndUpdate(msgs, botMsgId)
  /\ pc' = "sources"
  /\ attempts' = AfterSuccess(attempts)
  /\ caught' = "none"
  /\ UNCHANGED <<sendCount, failed>>

\* streamMessage rejects (catch/finally: clearTimeout); App's catch issues
\* sendMessage(text, true)
Rejected(kind, att) ==
  /\ sm' = "rejected"
  /\ smResult' = kind
  /\ timerArmed' = FALSE
  /\ pc' = "fallback"
  /\ sendCount' = sendCount + 1
  /\ attempts' = att
  /\ failed' = att
  /\ caught' = "none"
  /\ UNCHANGED <<messages, endedBy>>

\* variant: the POST attempt is left out
NextTransportSkipsPost(t) ==
  CASE t = "es" -> "get"
    [] OTHER -> "none"

\* variant: the POST attempt is not wrapped in its own try/catch
NextTransportStopsAtPost(t) ==
  CASE t = "es" -> "post"
    [] OTHER -> "none"

\* the transport streamMessage tries after transport t has failed
NextTransport(t) ==
  CASE t = "es" -> "post"
    [] t \in {"post", "postRead"} -> "get"
    [] OTHER -> "none"

\* the transport a position of streamMessage belongs to
TransportOf(t) ==
  CASE t \in {"post", "postRead"} -> "post"
    [] t \in {"get", "getRead"} -> "get"
    [] OTHER -> t

\* a fetch or a read of the current chunked transport failed with the error
\* why: the last transport's error is thrown to the caller, an earlier one
\* is caught and the next transport is requested
Fail(kind, why) ==
  IF NextTransport(sm) = "none"
  THEN Rejected(kind, attempts)
  ELSE /\ sm' = NextTransport(sm)
       /\ attempts' = Append(attempts, NextTransport(sm))
       /\ failed' = Append(failed, TransportOf(sm))
       /\ caught' = why
       /\ UNCHANGED <<smResult, timerArmed, pc, sendCount, messages, endedBy>>

\* variant: the EventSource is left open
EsCloseLeavesOpen(open) == open

\* cleanup(): es.close()
EsClose(open) == FALSE

\* variant: an error after the connection opened counts as the end
EsErrorRejectsUnopened(opened, done) == ~opened

\* es.onerror: if (!opened || !done) reject(...) else resolve()
EsErrorRejects(opened, done) == ~opened \/ ~done

\* variant: the lookup error reaches the outer catch, which calls sendMessage
LookupFailureRetries(n) == n + 1

\* the catch around getSimilarDocuments swallows the error: the number of
\* sendMessage requests stays n
LookupFailureRequests(n) == n

\* variant: the lookup's failure is shown in the bot message
LookupFailureMarksError(msgs, id) ==
  [i \in 1..Len(msgs) |->
     IF msgs[i].id = id THEN [msgs[i] EXCEPT !.isError = TRUE] ELSE msgs[i]]

\* `catch (e) { console.log(...) }` around getSimilarDocuments: the messages
\* after the lookup has failed
LookupFailureUpdate(msgs, id) == msgs

\* variant: isLoading is left as it is
FinallySkipped(loading) == loading

\* `finally { setIsLoading(false); }`
Finally(loading) == FALSE

\* cleanup(): clearTimeout(timeoutId)
CleanupTimer(armed) == FALSE

\* variant: what is left in the buffer is emitted when the body ends
RemainderFlushed(buf) == IF Trim(buf) = <<>> THEN <<>> ELSE <<Trim(buf)>>

\* `if (done) break;`: the callbacks made for what is left in the buffer when
\* the body ends: none
RemainderAtClose(buf) == <<>>

\* variant: the callback is made without looking at the answer
JsonTokensAlways(data) == <<data.answer>>

\* const text = data?.answer || ''; if (text) onToken(text);
JsonTokens(data) == IF data.answer # <<>> THEN <<data.answer>> ELSE <<>>

\* variant: the remainder of the previous read is dropped
AppendChunkDropsRest(buf, chunk) == chunk

\* buffer += decoder.decode(value, {stream: true})
AppendChunk(buf, chunk) == buf \o chunk

(***************************************************************************)
(* handleSendMessage up to its first await, streamMessage up to its first  *)
(* await included.  avail: window.EventSource is defined.  Both Date.now() *)
(* calls of one submission read the same millisecond, and a submission     *)
(* reads a later millisecond than any id given before it (a query in       *)
(* flight lasts longer than a millisecond).                                *)
(***************************************************************************)
Accept(text, avail) ==
  /\ ~(Trim(text) = <<>> \/ isLoading)
  /\ LET uid == dateNow + 1
         bid == uid + 1
     IN /\ messages' = <<BaseBotMsg(bid), UserMsg(uid, text)>> \o messages
        /\ botMsgId' = bid
        /\ dateNow' = bid
  /\ isLoading' = TRUE
  /\ nq' = nq + 1
  /\ pc' = "stream"
  /\ accumulated' = <<>>
  /\ tokenCount' = 0
  /\ tokens' = <<>>
  /\ tokBy' = <<>>
  /\ frames' = <<>>
  /\ timerArmed' = TRUE
  /\ aborted' = FALSE
  /\ elapsed' = 0
  /\ sm' = IF avail THEN "es" ELSE NextTransport("es")
  /\ esOpen' = avail
  /\ attempts' = IF avail THEN <<"es">> ELSE <<"es", NextTransport("es")>>
  /\ failed' = IF avail THEN <<>> ELSE <<"es">>
  /\ caught' = IF avail THEN "none" ELSE "es"
  /\ esOpened' = FALSE
  /\ esDone' = FALSE
  /\ esEvents' = 0
  /\ esLast' = <<>>
  /\ rest' = <<>>
  /\ buffer' = <<>>
  /\ body' = <<>>
  /\ rsTokens' = <<>>
  /\ cuts' = {}
  /\ endedBy' = "none"
  /\ sendCount' = 0
  /\ doneSeen' = FALSE
  /\ smResult' = "none"
  /\ srcResult' = "none"
  /\ ignored' = FALSE
  /\ fbResult' = NoFallback
  /\ api' = api

\* an accepted submission, while fewer than MaxQueries have been made
Submit(text, avail) == nq < MaxQueries /\ Accept(text, avail)

\* variant: the guard comes after the user's message has been added
IgnoredMessagesEchoed(msgs, text) == <<UserMsg(0, text)>> \o msgs

\* `if (!text.trim() || isLoading) return;`: the messages after a submission
\* that is turned down
IgnoredMessages(msgs, text) == msgs

\* a submission that is turned down: MessageInput.handleSend does not call
\* onSend when the text is blank or the input is disabled (disabled is
\* isLoading), and handleSendMessage returns at its guard
SubmitIgnored(text) ==
  /\ Trim(text) = <<>> \/ isLoading
  /\ ignored' = TRUE
  /\ messages' = IgnoredMessages(messages, text)
  /\ UNCHANGED <<isLoading, pc, botMsgId, accumulated, tokenCount, dateNow, nq,
                 sm, timerArmed, aborted, elapsed, esVars, rdVars, tokens,
                 tokBy, frames,
                 endedBy, failed, caught, attempts, sendCount, doneSeen,
                 smResult, srcResult, fbResult, api>>

(***************************************************************************)
(* Event-stream transport (tryEventSource)                                 *)
(***************************************************************************)
EsOnOpen ==
  /\ esOpen /\ ~esOpened
  /\ esOpened' = TRUE
  /\ UNCHANGED <<setVars, tokVars, idVars, fbResult, aborted, elapsed,
                 esOpen, esDone, esEvents, esLast, rdVars, doneSeen>>

EsOnMessage(payload) ==
  /\ esOpen /\ esOpened
  /\ LET act == DecodeEvent(payload) IN
     CASE act.kind = "done" ->
            /\ esDone' = TRUE
            /\ esOpen' = EsClose(esOpen)
            /\ doneSeen' = TRUE
            /\ IF sm = "es"
               THEN Resolved(messages, "done")
               ELSE /\ timerArmed' = CleanupTimer(timerArmed)
                    /\ UNCHANGED <<sm, smResult, pc, sendCount, attempts,
                                   messages, endedBy, failed, caught>>
            /\ UNCHANGED <<tokVars, esEvents>>
       [] act.kind = "emit" ->
            /\ esEvents < MaxEvents
            /\ esEvents' = esEvents + 1
            /\ ApplyTok(act.text, "es")
            /\ Stay(TokenUpdate(messages, botMsgId, accumulated', tokenCount'))
            /\ UNCHANGED <<esOpen, esDone, doneSeen>>
       [] act.kind = "none" ->
            /\ esEvents < MaxEvents
            /\ esEvents' = esEvents + 1
            /\ UNCHANGED <<setVars, tokVars, esOpen, esDone, doneSeen>>
  /\ esLast' = payload
  /\ KeepLocals
  /\ UNCHANGED <<idVars, fbResult, aborted, esOpened, rdHist>>

\* es.onmessage for an event that bears a token, with a callback that throws
\* when it is called with the token; an error of the second call leaves the
\* handler, and the event stream stays as it is
EsOnMessageThrows(payload, again) ==
  /\ esOpen /\ esOpened
  /\ esEvents < MaxEvents
  /\ LET act == DecodeEvent(payload) IN
     /\ act.kind = "emit"
     /\ ApplyTokTwice(act.text, payload, "es", again)
     /\ Stay(IF again THEN messages
             ELSE TokenUpdate(messages, botMsgId, accumulated', tokenCount'))
  /\ esEvents' = esEvents + 1
  /\ esLast' = payload
  /\ KeepLocals
  /\ UNCHANGED <<idVars, fbResult, aborted, esOpen, esOpened, esDone, doneSeen,
                 rdHist>>

EsOnError ==
  /\ esOpen
  /\ esOpen' = EsClose(esOpen)
  /\ IF sm # "es"
     THEN /\ timerArmed' = CleanupTimer(timerArmed)
          /\ UNCHANGED <<sm, smResult, pc, sendCount, attempts, messages,
                         endedBy, failed, caught>>
     ELSE IF EsErrorRejects(esOpened, esDone)
     THEN \* reject('EventSource failed'); streamMessage goes on to tryPost.
          \* A fetch on an aborted signal rejects at once, here and in tryGet.
          LET second == NextTransport("es")
              third  == NextTransport(second)
          IN IF aborted
             THEN Rejected("timeout",
                           IF third = "none" THEN <<"es", second>>
                           ELSE <<"es", second, third>>)
             ELSE /\ sm' = second
                  /\ attempts' = Append(attempts, second)
                  /\ failed' = Append(failed, "es")
                  /\ caught' = "es"
                  /\ timerArmed' = CleanupTimer(timerArmed)
                  /\ UNCHANGED <<smResult, pc, sendCount, messages, endedBy>>
     ELSE Resolved(messages, "eserror")
  /\ esLast' = <<>>
  /\ KeepLocals
  /\ UNCHANGED <<tokVars, idVars, fbResult, aborted, esOpened, esDone,
                 esEvents, rdHist, doneSeen>>

(***************************************************************************)
(* Chunked transports (tryPost / tryGet, readStream)                       *)
(***************************************************************************)
\* fetch rejects: connection refused, network error
FetchReject ==
  /\ sm \in {"post", "get"}
  /\ Fail("error", "fetch")
  /\ KeepLocals
  /\ UNCHANGED <<tokVars, idVars, fbResult, aborted, esVars, rdHist, doneSeen>>

\* fetch resolves with a response; readStream runs up to its first read
FetchResponse(resp) ==
  /\ sm \in {"post", "get"}
  /\ CASE resp.kind \in {"http_error", "nobody"} ->
            /\ Fail("error", resp.kind)
            /\ KeepLocals
            /\ UNCHANGED <<tokVars, rdHist>>
       [] resp.kind = "json" ->
            \* await response.json() rejects when the body is not JSON
            LET data == JSONParse(resp.body) IN
            /\ body' = resp.body
            /\ cuts' = {}
            /\ IF ~data.ok
               THEN /\ Fail("error", "badjson")
                    /\ UNCHANGED <<tokVars, rsTokens>>
               ELSE /\ rsTokens' = JsonTokens(data)
                    /\ IF rsTokens' # <<>>
                       THEN /\ ApplyTok(rsTokens'[1], TransportOf(sm))
                            /\ Resolved(TokenUpdate(messages, botMsgId,
                                                    accumulated', tokenCount'),
                                        "json")
                       ELSE /\ Resolved(messages, "json")
                            /\ UNCHANGED tokVars
            /\ KeepLocals
       [] resp.kind = "stream" ->
            /\ sm' = IF sm = "post" THEN "postRead" ELSE "getRead"
            /\ rest' = resp.body
            /\ body' = resp.body
            /\ buffer' = <<>>
            /\ rsTokens' = <<>>
            /\ cuts' = {}
            /\ caught' = "none"
            /\ UNCHANGED <<smResult, timerArmed, pc, sendCount, attempts,
                           messages, endedBy, failed, tokVars, elapsed>>
  /\ UNCHANGED <<idVars, fbResult, aborted, esVars, doneSeen>>

\* where a read ended, given the buffer it left: inside the 'data:' marker
\* or inside a JSON payload
CutKind(buf) ==
  LET pend == IF buf = <<>> THEN <<>>
              ELSE LET nls  == {i \in 1..Len(buf) : buf[i] = "\n"}
                       last == IF nls = {} THEN 0
                               ELSE CHOOSE i \in nls : \A j \in nls : j <= i
                   IN SubSeq(buf, last + 1, Len(buf))
  IN IF pend = <<>> THEN {}
     ELSE IF Len(pend) < Len(DATA) /\ StartsWith(DATA, pend) THEN {"marker"}
     ELSE IF \E i \in 1..Len(pend) : pend[i] = "{" THEN {"json"}
     ELSE {}

\* reader.read() yields the next k characters of the body
ReadChunk(k) ==
  /\ sm \in ReadStates /\ ~Busy
  /\ k \in 1..Len(rest)
  /\ buffer' = AppendChunk(buffer, SubSeq(rest, 1, k))
  /\ rest' = SubSeq(rest, k + 1, Len(rest))
  /\ cuts' = IF k < Len(rest) THEN cuts \cup CutKind(buffer') ELSE cuts
  /\ UNCHANGED <<setVars, tokVars, idVars, fbResult, aborted, elapsed, esVars,
                 body, rsTokens, doneSeen>>

\* one turn of `while ((idx = buffer.indexOf('\n')) !== -1)`
ProcessLine ==
  /\ Busy
  /\ LET idx  == IndexOfNL(buffer)
         line == SubSeq(buffer, 1, idx - 1)
         act  == DecodeLine(line)
     IN /\ CASE act.kind = "done" ->
                  /\ doneSeen' = TRUE
                  /\ Resolved(messages, "done")
                  /\ UNCHANGED <<tokVars, rsTokens>>
             [] act.kind = "emit" ->
                  /\ ApplyTok(act.text, TransportOf(sm))
                  /\ rsTokens' = Append(rsTokens, act.text)
                  /\ Stay(TokenUpdate(messages, botMsgId, accumulated',
                                      tokenCount'))
                  /\ UNCHANGED doneSeen
             [] act.kind = "none" ->
                  UNCHANGED <<setVars, tokVars, rsTokens, doneSeen>>
        /\ Locals(rest, SubSeq(buffer, idx + 1, Len(buffer)), elapsed)
  /\ UNCHANGED <<idVars, fbResult, aborted, esVars, body, cuts>>

\* one turn of the line loop for a line that bears a token, with a callback
\* that throws when it is called with the token.  In a data: line the catch
\* calls it again with the payload, and an error of that call leaves
\* readStream; the error of the call for any other line leaves readStream at
\* once.
ProcessLineThrows(again) ==
  /\ Busy
  /\ LET idx     == IndexOfNL(buffer)
         line    == SubSeq(buffer, 1, idx - 1)
         trimmed == Trim(line)
         act     == DecodeLine(line)
     IN /\ act.kind = "emit"
        /\ IF StartsWith(trimmed, DATA)
           THEN LET payload == Trim(SubSeq(trimmed, 6, Len(trimmed))) IN
                /\ ApplyTokTwice(act.text, payload, TransportOf(sm), again)
                /\ rsTokens' = rsTokens \o <<act.text, payload>>
                /\ IF again
                   THEN Fail("error", "callback")
                   ELSE Stay(TokenUpdate(messages, botMsgId, accumulated',
                                         tokenCount'))
           ELSE /\ again
                /\ ApplyTokThrown(trimmed, TransportOf(sm))
                /\ rsTokens' = Append(rsTokens, trimmed)
                /\ Fail("error", "callback")
        /\ Locals(rest, SubSeq(buffer, idx + 1, Len(buffer)), elapsed)
  /\ UNCHANGED <<idVars, fbResult, aborted, esVars, body, cuts, doneSeen>>

\* reader.read() reports done: the body has ended
ReadDone ==
  /\ sm \in ReadStates /\ ~Busy
  /\ rest = <<>>
  /\ LET left == RemainderAtClose(buffer) IN
     IF left = <<>>
     THEN /\ Resolved(messages, "eof")
          /\ UNCHANGED <<tokVars, rsTokens>>
     ELSE /\ ApplyTok(left[1], TransportOf(sm))
          /\ rsTokens' = Append(rsTokens, left[1])
          /\ Resolved(TokenUpdate(messages, botMsgId, accumulated',
                                  tokenCount'), "eof")
  /\ KeepLocals
  /\ UNCHANGED <<idVars, fbResult, aborted, esVars, body, cuts, doneSeen>>

\* reader.read() rejects: the connection dropped
ReadError ==
  /\ sm \in ReadStates /\ ~Busy
  /\ Fail("error", "read")
  /\ KeepLocals
  /\ UNCHANGED <<tokVars, idVars, fbResult, aborted, esVars, rdHist, doneSeen>>

(***************************************************************************)
(* Time and the timer of streamMessage                                     *)
(***************************************************************************)
Tick ==
  /\ pc = "stream" /\ ~Busy
  /\ elapsed < MaxElapsed
  /\ ~(timerArmed /\ elapsed >= TimeoutMs)
  /\ elapsed' = IF elapsed < TimeoutMs /\ elapsed + TickMs > TimeoutMs
                THEN TimeoutMs
                ELSE IF elapsed + TickMs > MaxElapsed THEN MaxElapsed
                ELSE elapsed + TickMs
  /\ UNCHANGED <<setVars, tokVars, idVars, fbResult, aborted, esVars, rdVars,
                 doneSeen>>

\* () => controller.abort(): the pending fetch or read rejects with
\* AbortError; after POST, tryGet's fetch rejects at once on the same signal
TimerFire ==
  /\ timerArmed /\ elapsed >= TimeoutMs /\ ~Busy
  /\ aborted' = TRUE
  /\ CASE sm \in {"post", "postRead"} ->
            Rejected("timeout", Append(attempts, NextTransport(sm)))
       [] sm \in {"get", "getRead"} ->
            Rejected("timeout", attempts)
       [] OTHER ->
            /\ timerArmed' = FALSE
            /\ UNCHANGED <<sm, smResult, pc, sendCount, attempts, messages,
                           endedBy, failed, caught>>
  /\ KeepLocals
  /\ UNCHANGED <<tokVars, idVars, fbResult, esVars, rdHist, doneSeen>>

(***************************************************************************)
(* After the stream: source lookup, or the non-streaming fallback          *)
(***************************************************************************)
inFlight == <<botMsgId, dateNow, nq, accumulated, tokenCount, tokens, tokBy,
              frames, sm,
              smResult, timerArmed, aborted, elapsed, esVars, rdVars, attempts,
              endedBy, failed, caught, doneSeen, ignored, api>>

SourcesResolve(docs) ==
  /\ pc = "sources"
  /\ messages' = SourcesUpdate(messages, botMsgId, docs)
  /\ srcResult' = "ok"
  /\ isLoading' = Finally(isLoading)
  /\ pc' = "idle"
  /\ UNCHANGED <<inFlight, fbResult, sendCount>>

SourcesReject ==
  /\ pc = "sources"
  /\ srcResult' = "err"
  /\ sendCount' = LookupFailureRequests(sendCount)
  /\ messages' = LookupFailureUpdate(messages, botMsgId)
  /\ isLoading' = Finally(isLoading)
  /\ pc' = "idle"
  /\ UNCHANGED <<inFlight, fbResult>>

FallbackResolve(response) ==
  /\ pc = "fallback"
  /\ messages' = FallbackUpdate(messages, botMsgId, response)
  /\ fbResult' = [kind |-> "ok", answer |-> response.answer,
                  sources |-> response.sources, message |-> <<>>]
  /\ isLoading' = Finally(isLoading)
  /\ pc' = "idle"
  /\ UNCHANGED <<inFlight, srcResult, sendCount>>

\* sendMessage throws new Error(`Failed to send message: ${error.message}`)
FallbackReject(cause) ==
  /\ pc = "fallback"
  /\ LET message == SendFailPrefix \o cause IN
     /\ messages' = ErrorUpdate(messages, botMsgId, message)
     /\ fbResult' = [kind |-> "err", answer |-> <<>>, sources |-> <<>>,
                     message |-> message]
  /\ isLoading' = Finally(isLoading)
  /\ pc' = "idle"
  /\ UNCHANGED <<inFlight, srcResult, sendCount>>

Next ==
  \/ \E text \in Questions, avail \in BOOLEAN : Submit(text, avail)
  \/ EsOnOpen
  \/ \E payload \in EsPayloads : EsOnMessage(payload)
  \/ EsOnError
  \/ FetchReject
  \/ \E resp \in Responses : FetchResponse(resp)
  \/ \E k \in ChunkSizes : ReadChunk(k)
  \/ ProcessLine
  \/ ReadDone
  \/ ReadError
  \/ Tick
  \/ TimerFire
  \/ \E docs \in SourceLists : SourcesResolve(docs)
  \/ SourcesReject
  \/ \E response \in FallbackReplies : FallbackResolve(response)
  \/ \E cause \in Causes : FallbackReject(cause)

Spec == Init /\ [][Next]_vars

(***************************************************************************)
(* Progress: time passes and a timer that is due fires; the line loop      *)
(* runs on; every fetch, every read of a body and every request of         *)
(* App.js settles.  Nothing is assumed of the event-stream server, which   *)
(* may stay silent.                                                        *)
(***************************************************************************)
SpecLive ==
  /\ Spec
  /\ WF_vars(Tick)
  /\ WF_vars(TimerFire)
  /\ WF_vars(ProcessLine)
  /\ WF_vars(FetchReject \/ \E resp \in Responses : FetchResponse(resp))
  /\ WF_vars(ReadDone \/ ReadError \/ \E k \in ChunkSizes : ReadChunk(k))
  /\ WF_vars(SourcesReject \/ \E docs \in SourceLists : SourcesResolve(docs))
  /\ WF_vars((\E response \in FallbackReplies : FallbackResolve(response))
               \/ \E cause \in Causes : FallbackReject(cause))

(***************************************************************************)
(* The chat input used at any moment: every step of Spec, and the          *)
(* submissions that are turned down as steps of their own.  The server     *)
(* answers with fewer kinds of events and responses than in Spec.          *)
(***************************************************************************)
Blank == <<" ">>

GuardPayloads == {DONE, <<"a">>}

GuardResponses ==
  {resp \in Responses :
     \/ resp.kind = "http_error"
     \/ resp.kind = "stream" /\ resp.body = <<"c">> \o NL \o <<"e">>}

NextGuard ==
  \/ \E text \in Questions, avail \in BOOLEAN : Submit(text, avail)
  \/ \E text \in Questions \cup {Blank} : SubmitIgnored(text)
  \/ EsOnOpen
  \/ \E payload \in GuardPayloads : EsOnMessage(payload)
  \/ EsOnError
  \/ FetchReject
  \/ \E resp \in GuardResponses : FetchResponse(resp)
  \/ \E k \in ChunkSizes : ReadChunk(k)
  \/ ProcessLine
  \/ ReadDone
  \/ ReadError
  \/ Tick
  \/ TimerFire
  \/ \E docs \in SourceLists : SourcesResolve(docs)
  \/ SourcesReject
  \/ \E response \in FallbackReplies : FallbackResolve(response)
  \/ \E cause \in Causes : FallbackReject(cause)

SpecGuard == Init /\ [][NextGuard]_vars

(***************************************************************************)
(* Several queries, one after the other: the chat in a browser without     *)
(* EventSource, whose server answers a stream request with one short body  *)
(* or not at all.  No time passes.                                         *)
(***************************************************************************)
ChatQuestions == {<<"q">>, <<" ", "r">>}

ChatResponses ==
  {resp \in Responses :
     resp.kind = "stream" /\ resp.body = <<"c">> \o NL \o <<"e">>}

NextChat ==
  \/ \E text \in ChatQuestions : nq < MaxChats /\ Accept(text, FALSE)
  \/ \E text \in ChatQuestions \cup {Blank} : SubmitIgnored(text)
  \/ FetchReject
  \/ \E resp \in ChatResponses : FetchResponse(resp)
  \/ \E k \in ChunkSizes : ReadChunk(k)
  \/ ProcessLine
  \/ ReadDone
  \/ \E docs \in SourceLists : SourcesResolve(docs)
  \/ SourcesReject
  \/ \E response \in FallbackReplies : FallbackResolve(response)
  \/ \E cause \in Causes : FallbackReject(cause)

SpecChat == Init /\ [][NextChat]_vars

\* the requests handleSendMessage makes after the stream settle
SpecChatLive ==
  /\ SpecChat
  /\ WF_vars(SourcesReject \/ \E docs \in SourceLists : SourcesResolve(docs))
  /\ WF_vars((\E response \in FallbackReplies : FallbackResolve(response))
               \/ \E cause \in Causes : FallbackReject(cause))

TypeOK ==
  /\ pc \in {"idle", "stream", "sources", "fallback"}
  /\ sm \in {"none", "es", "post", "postRead", "get", "getRead", "resolved",
             "rejected"}
  /\ isLoading = (pc # "idle")
  /\ esOpen => sm = "es"
  /\ caught \in {"none", "es", "fetch", "http_error", "nobody", "badjson",
                 "read", "callback"}

(***************************************************************************)
(* readStream alone: a chunked POST response with any body made of the     *)
(* records above, read in chunks of any sizes.  The initial states are     *)
(* the states of Spec after Submit without EventSource and the arrival of  *)
(* the response.                                                           *)
(***************************************************************************)
InitRead ==
  /\ messages = <<BaseBotMsg(2), UserMsg(1, <<"q">>)>>
  /\ isLoading = TRUE
  /\ pc = "stream"
  /\ botMsgId = 2
  /\ accumulated = <<>>
  /\ tokenCount = 0
  /\ dateNow = 2
  /\ nq = 1
  /\ sm = "postRead"
  /\ timerArmed = TRUE
  /\ aborted = FALSE
  /\ elapsed = 0
  /\ esOpen = FALSE
  /\ esOpened = FALSE
  /\ esDone = FALSE
  /\ esEvents = 0
  /\ esLast = <<>>
  /\ body \in ReadBodies
  /\ rest = body
  /\ buffer = <<>>
  /\ tokens = <<>>
  /\ tokBy = <<>>
  /\ frames = <<>>
  /\ rsTokens = <<>>
  /\ cuts = {}
  /\ endedBy = "none"
  /\ failed = <<"es">>
  /\ caught = "none"
  /\ attempts = <<"es", "post">>
  /\ sendCount = 0
  /\ doneSeen = FALSE
  /\ smResult = "none"
  /\ srcResult = "none"
  /\ ignored = FALSE
  /\ fbResult = NoFallback
  /\ api = NoCall

NextRead ==
  \/ \E k \in ChunkSizes : ReadChunk(k)
  \/ ProcessLine
  \/ ReadDone

SpecRead == InitRead /\ [][NextRead]_vars

(***************************************************************************)
(* The two decoders side by side: a call whose event stream has opened and *)
(* receives any of DecodePayloads, or whose POST response carries the same *)
(* payload as a data: record.  The initial states are states of Spec after *)
(* Submit and es.onopen, or after Submit without EventSource and the       *)
(* arrival of the response.                                                *)
(***************************************************************************)
InitDecode ==
  /\ messages = <<BaseBotMsg(2), UserMsg(1, <<"q">>)>>
  /\ isLoading = TRUE
  /\ pc = "stream"
  /\ botMsgId = 2
  /\ accumulated = <<>>
  /\ tokenCount = 0
  /\ dateNow = 2
  /\ nq = 1
  /\ \/ /\ sm = "es"
        /\ esOpen = TRUE
        /\ esOpened = TRUE
        /\ body = <<>>
        /\ failed = <<>>
        /\ caught = "none"
        /\ attempts = <<"es">>
     \/ /\ sm = "postRead"
        /\ esOpen = FALSE
        /\ esOpened = FALSE
        /\ body \in DecodeBodies \cup BlankBodies
        /\ failed = <<"es">>
        /\ caught = "none"
        /\ attempts = <<"es", "post">>
  /\ timerArmed = TRUE
  /\ aborted = FALSE
  /\ elapsed = 0
  /\ esDone = FALSE
  /\ esEvents = 0
  /\ esLast = <<>>
  /\ rest = body
  /\ buffer = <<>>
  /\ tokens = <<>>
  /\ tokBy = <<>>
  /\ frames = <<>>
  /\ rsTokens = <<>>
  /\ cuts = {}
  /\ endedBy = "none"
  /\ sendCount = 0
  /\ doneSeen = FALSE
  /\ smResult = "none"
  /\ srcResult = "none"
  /\ ignored = FALSE
  /\ fbResult = NoFallback
  /\ api = NoCall

NextDecode ==
  \/ \E payload \in DecodePayloads : EsOnMessage(payload)
  \/ \E k \in ChunkSizes : ReadChunk(k)
  \/ ProcessLine
  \/ ReadDone

SpecDecode == InitDecode /\ [][NextDecode]_vars

(***************************************************************************)
(* The exported functions called directly, with any arguments: one call    *)
(* per behaviour, drawn in the initial state; the action of a function     *)
(* runs it up to its first await.                                          *)
(***************************************************************************)
InitApi ==
  /\ messages = <<>>
  /\ isLoading = FALSE
  /\ pc = "idle"
  /\ botMsgId = 0
  /\ accumulated = <<>>
  /\ tokenCount = 0
  /\ dateNow = 0
  /\ nq = 0
  /\ sm = "none"
  /\ timerArmed = FALSE
  /\ aborted = FALSE
  /\ elapsed = 0
  /\ esOpen = FALSE
  /\ esOpened = FALSE
  /\ esDone = FALSE
  /\ esEvents = 0
  /\ esLast = <<>>
  /\ rest = <<>>
  /\ buffer = <<>>
  /\ body = <<>>
  /\ tokens = <<>>
  /\ tokBy = <<>>
  /\ frames = <<>>
  /\ rsTokens = <<>>
  /\ cuts = {}
  /\ endedBy = "none"
  /\ failed = <<>>
  /\ caught = "none"
  /\ attempts = <<>>
  /\ sendCount = 0
  /\ doneSeen = FALSE
  /\ smResult = "none"
  /\ srcResult = "none"
  /\ ignored = FALSE
  /\ fbResult = NoFallback
  /\ api \in ApiCalls

apiRest == <<messages, isLoading, pc, botMsgId, accumulated, tokenCount,
             dateNow, nq, aborted, elapsed, esOpened, esDone, esEvents, esLast,
             rest, buffer, body, tokens, tokBy, frames, rsTokens, cuts, endedBy,
             doneSeen, srcResult, ignored, fbResult>>

\* streamMessage(question, onToken): the validation throws before the timer
\* is set; otherwise the timer is set and the first transport is started
ApiStreamMessage(avail) ==
  /\ api.fn = "streamMessage" /\ api.outcome = "none"
  /\ IF RejectsQuestion(api.arg)
     THEN /\ api' = [api EXCEPT !.outcome = "invalid"]
          /\ sm' = "rejected"
          /\ smResult' = "invalid"
          /\ UNCHANGED <<timerArmed, esOpen, attempts, failed, caught>>
     ELSE /\ api' = [api EXCEPT !.outcome = "issued", !.requests = 1]
          /\ timerArmed' = TRUE
          /\ sm' = IF avail THEN "es" ELSE NextTransport("es")
          /\ esOpen' = avail
          /\ attempts' = IF avail THEN <<"es">> ELSE <<"es", NextTransport("es")>>
          /\ failed' = IF avail THEN <<>> ELSE <<"es">>
          /\ caught' = IF avail THEN "none" ELSE "es"
          /\ smResult' = "none"
  /\ UNCHANGED <<apiRest, sendCount>>

\* sendMessage(question): the validation throws; otherwise makeRequest
\* issues the POST
ApiSendMessage ==
  /\ api.fn = "sendMessage" /\ api.outcome = "none"
  /\ IF RejectsQuestion(api.arg)
     THEN /\ api' = [api EXCEPT !.outcome = "invalid"]
          /\ sendCount' = sendCount
     ELSE /\ api' = [api EXCEPT !.outcome = "issued", !.requests = 1]
          /\ sendCount' = sendCount + 1
  /\ UNCHANGED <<apiRest, sm, smResult, timerArmed, esOpen, attempts, failed,
                 caught>>

\* getSimilarDocuments(query, k): the two validations throw; otherwise
\* makeRequest issues the POST
ApiGetSimilarDocuments ==
  /\ api.fn = "getSimilarDocuments" /\ api.outcome = "none"
  /\ IF RejectsQuestion(api.arg) \/ RejectsK(api.k)
     THEN api' = [api EXCEPT !.outcome = "invalid"]
     ELSE api' = [api EXCEPT !.outcome = "issued", !.requests = 1]
  /\ UNCHANGED <<apiRest, sm, smResult, timerArmed, esOpen, attempts, failed,
                 caught, sendCount>>

NextApi ==
  \/ \E avail \in BOOLEAN : ApiStreamMessage(avail)
  \/ ApiSendMessage
  \/ ApiGetSimilarDocuments

SpecApi == InitApi /\ [][NextApi]_vars

(***************************************************************************)
(* A callback that may throw: the two decoders as in SpecDecode, and for   *)
(* every token the choice whether the callback returns or throws.          *)
(***************************************************************************)
NextThrow ==
  \/ \E payload \in DecodePayloads : EsOnMessage(payload)
  \/ \E payload \in DecodePayloads, again \in BOOLEAN :
       EsOnMessageThrows(payload, again)
  \/ \E k \in ChunkSizes : ReadChunk(k)
  \/ ProcessLine
  \/ \E again \in BOOLEAN : ProcessLineThrows(again)
  \/ ReadDone

SpecThrow == InitDecode /\ [][NextThrow]_vars

(***************************************************************************)
(* Properties                                                              *)
(***************************************************************************)
\* the bot message of the query in flight (or of the last one)
BotMsg == messages[CHOOSE i \in 1..Len(messages) : messages[i].id = botMsgId]

Contains(s, part) ==
  \E i \in 1..(Len(s) - Len(part) + 1) : SubSeq(s, i, i + Len(part) - 1) = part

\* C1: from the acceptance of a query until its stream has settled, and for
\* good once the stream has resolved, the text of the bot message is the
\* concatenation, in delivery order and without separators, of all tokens
\* the callback has received, whichever transports delivered them; tokens of
\* a transport that failed later stay in it.
C1_TextIsConcatenation ==
  (nq > 0 /\ (pc \in {"stream", "sources", "fallback"} \/ smResult = "resolved"))
    => /\ BotMsg.text = Concat(tokens)
       /\ accumulated = Concat(tokens)

\* tokens of the event stream, which failed, followed by tokens of POST
C1_Witness ==
  /\ smResult = "resolved"
  /\ failed = <<"es">>
  /\ tokens = << <<"a">>, <<"c">> >>
  /\ BotMsg.text = <<"a", "c">>

IsPrefix(a, b) == Len(a) <= Len(b) /\ SubSeq(b, 1, Len(a)) = a

TransportOrder == <<"es", "post", "get">>

\* C2: the transports a call has started are an initial part of event-stream,
\* POST, GET, so each is tried at most once and in that order; and while a
\* transport is being tried, exactly the ones before it have failed.
C2_FixedOrder ==
  /\ IsPrefix(attempts, TransportOrder)
  /\ IsPrefix(failed, attempts)
  /\ sm \in {"es", "post", "postRead", "get", "getRead"} =>
       /\ attempts[Len(attempts)] = TransportOf(sm)
       /\ failed = SubSeq(attempts, 1, Len(attempts) - 1)
       /\ (TransportOf(sm) # "es" => ~esOpen)

C2_Witness ==
  /\ sm = "getRead"
  /\ attempts = TransportOrder
  /\ failed = <<"es", "post">>

Active == pc = "stream"

\* C3: the deadline is shared by the transports: while the POST or the GET
\* transport of a call is being tried, no more than 600 seconds have passed
\* since the call started.
C3_SharedDeadline ==
  sm \in {"post", "postRead", "get", "getRead"} => elapsed <= TimeoutMs

\* C4: a call that has not settled is ended by the timer when 600 seconds
\* have passed, whichever transport is active: no call is still unsettled
\* after more than 600 seconds, and once the timer has fired the call has
\* rejected with the timeout error.
C4_TimeoutRejects ==
  /\ Active => elapsed <= TimeoutMs
  /\ aborted => smResult = "timeout"

\* C5 (as claimed): streamMessage resolves only when [DONE] has been observed
\* during the call.
C5_ResolvedOnlyOnDone ==
  smResult = "resolved" => doneSeen

\* C5 (amended): streamMessage resolves only when [DONE] has been observed
\* during the call, or when a chunked transport (POST or GET) ended without
\* it: its body was read to the end, or it was a single JSON body.
C5_ResolvedOnlyAtEnd ==
  smResult = "resolved" =>
    \/ doneSeen /\ endedBy = "done"
    \/ /\ endedBy \in {"eof", "json"}
       /\ attempts[Len(attempts)] \in {"post", "get"}

\* a chunked body that ended without [DONE] after delivering a token
C5_Witness ==
  /\ smResult = "resolved"
  /\ ~doneSeen
  /\ endedBy = "eof"
  /\ tokens # <<>>

\* C6: sendMessage is requested exactly once for a query whose streamMessage
\* call rejected (transports exhausted, or timeout) and never otherwise: not
\* when streaming succeeds, whatever the source lookup does, and not a second
\* time when the fallback fails.
C6_OneFallbackRequest ==
  sendCount = IF smResult \in {"error", "timeout"} THEN 1 ELSE 0

\* the fallback failed and the query is over
C6_Witness ==
  /\ pc = "idle"
  /\ fbResult.kind = "err"
  /\ sendCount = 1

\* C7: when streaming has failed and the fallback has answered
\* {answer: X, sources: S}, the bot message ends with text X, sources S and
\* isStreaming false, whatever had been streamed into it.
C7_FallbackReplaces ==
  (pc = "idle" /\ fbResult.kind = "ok") =>
    /\ BotMsg.text = fbResult.answer
    /\ BotMsg.sources = fbResult.sources
    /\ BotMsg.isStreaming = FALSE

\* tokens had been shown before the fallback answered
C7_Witness ==
  /\ pc = "idle"
  /\ fbResult.kind = "ok"
  /\ tokens # <<>>
  /\ BotMsg.text = <<"X">>
  /\ BotMsg.sources = <<"doc1">>

\* C8: the bot message of a query is marked as an error exactly when
\* streamMessage rejected and the fallback request rejected too; its text
\* then contains the message of the fallback's error and isStreaming is
\* false.  A fallback that succeeded leaves no error marking.
C8_ErrorIffBothFailed ==
  nq > 0 =>
    /\ BotMsg.isError <=>
         (smResult \in {"error", "timeout"} /\ fbResult.kind = "err")
    /\ BotMsg.isError =>
         /\ Contains(BotMsg.text, fbResult.message)
         /\ BotMsg.isStreaming = FALSE
    /\ fbResult.kind = "ok" => ~BotMsg.isError

\* the stream timed out after showing a token, then the fallback failed
C8_Witness ==
  /\ smResult = "timeout"
  /\ pc = "idle"
  /\ tokens # <<>>
  /\ BotMsg.isError

\* the callbacks readStream makes when the whole body arrives in one read
RECURSIVE LoopTokens(_)
LoopTokens(buf) ==
  LET idx == IndexOfNL(buf) IN
  IF idx = 0 THEN <<>>
  ELSE LET act   == DecodeLine(SubSeq(buf, 1, idx - 1))
           after == SubSeq(buf, idx + 1, Len(buf))
       IN IF act.kind = "done" THEN <<>>
          ELSE IF act.kind = "emit" THEN <<act.text>> \o LoopTokens(after)
          ELSE LoopTokens(after)

SingleReadTokens(b) == LoopTokens(AppendChunk(<<>>, b))

\* C9: when the read loop of a chunked response has finished, the callbacks
\* it made are those of the same body delivered in a single read, wherever
\* the reads divided the body.
C9_SplitInvariant ==
  endedBy \in {"done", "eof"} => rsTokens = SingleReadTokens(body)

\* the body data: {"token":"Hello"}\n read with one cut inside the marker
\* and one inside the JSON payload: the single token Hello
C9_Witness ==
  /\ endedBy = "eof"
  /\ body = DATA \o SP \o JsonToken(Hello) \o NL
  /\ cuts = {"marker", "json"}
  /\ rsTokens = <<Hello>>

\* C10: once [DONE] has been observed during a call, the accumulator and the
\* text of the bot message change no more and no callback is made, whatever
\* follows the marker.
C10_DoneIsFinal ==
  [][(doneSeen /\ doneSeen') =>
       /\ UNCHANGED <<accumulated, tokens, tokenCount>>
       /\ BotMsg'.text = BotMsg.text]_vars

\* [DONE] was observed in a body that goes on with the record z, which was
\* never delivered: the query is over with the token c alone
C10_Witness ==
  /\ doneSeen
  /\ endedBy = "done"
  /\ pc = "idle"
  /\ body = <<"c">> \o NL \o DATA \o DONE \o NL \o <<"z">> \o NL
  /\ tokens = << <<"c">> >>
  /\ BotMsg.text = <<"c">>

\* C11: a bot message is created with isStreaming true; the flag is true
\* exactly while the query's stream or its fallback request is pending, so it
\* is false once the query is over; it becomes false only in the step in
\* which the stream completes, the fallback answers or the fallback fails;
\* and a message whose flag is false never gets it back, whatever arrives
\* later.
C11_StreamingOnce ==
  /\ [](nq > 0 => (BotMsg.isStreaming <=> pc \in {"stream", "fallback"}))
  /\ [][/\ \A id \in BotIds(messages') \ BotIds(messages) :
             MsgOf(messages', id).isStreaming
        /\ \A id \in BotIds(messages) :
             LET old == MsgOf(messages, id)
                 new == MsgOf(messages', id)
             IN /\ ~old.isStreaming => ~new.isStreaming
                /\ (old.isStreaming /\ ~new.isStreaming) =>
                     \/ smResult # "resolved" /\ smResult' = "resolved"
                     \/ fbResult.kind = "none" /\ fbResult'.kind \in {"ok", "err"}
       ]_vars

\* tokens had set the flag again and again before the stream completed
C11_Witness ==
  /\ smResult = "resolved"
  /\ pc = "idle"
  /\ Len(tokens) >= 2
  /\ ~BotMsg.isStreaming

\* C12: when a call has resolved, the transport that succeeded is the last
\* one it started: all the earlier ones had failed, nothing is open any
\* more, and neither the resolving step nor any later step of the query
\* starts another transport (no POST after a successful event stream, no
\* GET after a successful POST).
C12_StopAtFirstSuccess ==
  /\ [](smResult = "resolved" =>
          /\ sm = "resolved" /\ ~esOpen
          /\ failed = SubSeq(attempts, 1, Len(attempts) - 1))
  /\ [][smResult' = "resolved" => attempts' = attempts]_vars

\* the POST attempt succeeded and the query is over: GET was never requested
C12_Witness ==
  /\ smResult = "resolved"
  /\ pc = "idle"
  /\ attempts = <<"es", "post">>
  /\ failed = <<"es">>

\* C13: a call rejects with a transport's error only when all three
\* transports, GET last, have failed; the error of the event stream or of
\* POST is caught, the call stays unsettled and the next transport is
\* requested; in particular a non-2xx response to POST leaves the GET
\* request pending.
C13_FailsOnlyAfterGet ==
  /\ smResult = "error" => (attempts = TransportOrder /\ failed = TransportOrder)
  /\ caught # "none" =>
       /\ smResult = "none" /\ pc = "stream"
       /\ sm = (IF caught = "es" THEN "post" ELSE "get")
       /\ failed = SubSeq(TransportOrder, 1, IF caught = "es" THEN 1 ELSE 2)
  /\ sm \in {"es", "post", "postRead"} => smResult = "none"

\* POST was answered with a non-2xx status and GET is pending
C13_Witness ==
  /\ caught = "http_error"
  /\ sm = "get"
  /\ attempts = TransportOrder

\* the part of a body that ends with its last newline
CompleteLines(b) ==
  LET nls == {i \in 1..Len(b) : b[i] = "\n"} IN
  IF nls = {} THEN <<>>
  ELSE SubSeq(b, 1, CHOOSE i \in nls : \A j \in nls : j <= i)

\* C14: while a chunked body is being read, the callbacks made so far are
\* those of the lines already taken off the buffer, each ended by a newline,
\* and the buffer holds the rest of what was read; a callback is made only
\* for the text before the first newline of the buffer, so after a read's
\* line loop the newline-free remainder has produced none; and when the body
\* ends, what follows its last newline is never passed to the callback.
C14_OnlyCompleteLines ==
  /\ [](sm \in ReadStates =>
          LET used == Len(body) - Len(rest) - Len(buffer) IN
          /\ used >= 0
          /\ SubSeq(body, used + 1, Len(body)) = buffer \o rest
          /\ (used > 0 => body[used] = "\n")
          /\ rsTokens = LoopTokens(SubSeq(body, 1, used)))
  /\ [][rsTokens' # rsTokens =>
          LET idx == IndexOfNL(buffer) IN
          /\ idx # 0
          /\ rsTokens' =
               Append(rsTokens, DecodeLine(SubSeq(buffer, 1, idx - 1)).text)
       ]_vars
  /\ [](endedBy = "eof" => rsTokens = LoopTokens(CompleteLines(body)))

\* the body x\ny ended with y in the buffer: y was never delivered
C14_Witness ==
  /\ endedBy = "eof"
  /\ body = <<"x">> \o NL \o <<"y">>
  /\ rsTokens = << <<"x">> >>
  /\ BotMsg.text = <<"x">>

\* the callbacks an action stands for
ActTokens(act) == IF act.kind = "emit" THEN <<act.text>> ELSE <<>>

\* the event stream has delivered exactly one event
EsFirstEvent ==
  /\ attempts = <<"es">>
  /\ \/ esEvents = 1 /\ ~doneSeen
     \/ esEvents = 0 /\ doneSeen

\* the chunked body data:<payload>\nz\n has been dealt with to its end
ReadFinished ==
  /\ attempts = <<"es", "post">>
  /\ body \in DecodeBodies
  /\ endedBy \in {"done", "eof"}

\* the payload of the first record of such a body, as sent
SentPayload == SubSeq(body, Len(DATA) + 1, Len(body) - 3)

\* C15: for every payload p the two transports act alike.  An event with
\* data p makes the event stream do what the line data:p makes the chunked
\* transport do, and the line data:p makes the chunked transport do what an
\* event with data p makes the event stream do: end, emit the same token, or
\* emit nothing.
C15_SameAction ==
  /\ EsFirstEvent =>
       LET act == DecodeLine(DATA \o esLast) IN
       /\ doneSeen <=> act.kind = "done"
       /\ tokens = ActTokens(act)
  /\ ReadFinished =>
       LET act == DecodeEvent(SentPayload) IN
       /\ endedBy = "done" <=> act.kind = "done"
       /\ rsTokens = IF act.kind = "done" THEN <<>>
                     ELSE ActTokens(act) \o << <<"z">> >>

\* the payload is the text of a JSON object
IsJsonObject(p) == StartsWith(p, <<"{">>) /\ JSONParse(p).ok

\* what a payload stands for, in the order marker, JSON object, raw text; an
\* empty token is no token
Meaning(p) ==
  IF p = DONE THEN ActDone
  ELSE LET text == IF ~IsJsonObject(p) THEN p
                   ELSE IF JSONParse(p).token # <<>> THEN JSONParse(p).token
                   ELSE JSONParse(p).text
       IN IF text = <<>> THEN ActNone ELSE ActEmit(text)

\* C16: each transport decodes the payload it has extracted (the data of the
\* event; the text after data:, trimmed) in the order: the marker [DONE] ends
\* the stream and yields no token; else a JSON object yields its token member,
\* or its text member when token is absent or empty; else the payload itself
\* is the token.
C16_DecodeOrder ==
  /\ EsFirstEvent =>
       LET act == Meaning(esLast) IN
       /\ doneSeen <=> act.kind = "done"
       /\ (doneSeen => endedBy = "done" /\ smResult = "resolved")
       /\ tokens = ActTokens(act)
  /\ ReadFinished =>
       LET act == Meaning(Trim(SentPayload)) IN
       /\ endedBy = "done" <=> act.kind = "done"
       /\ rsTokens = IF act.kind = "done" THEN <<>>
                     ELSE ActTokens(act) \o << <<"z">> >>

\* an object with both members, the token member empty: its text member was
\* emitted
C16_Witness ==
  /\ EsFirstEvent
  /\ esLast = JsonBoth(<<>>, <<"t">>)
  /\ tokens = << <<"t">> >>
  /\ BotMsg.text = <<"t">>

\* the payload looks like JSON and does not parse
Malformed(p) == StartsWith(p, <<"{">>) /\ ~JSONParse(p).ok

\* C17: a payload that starts like a JSON object and does not parse is passed
\* to the callback as it is, as one token, in the step that decodes it; that
\* step neither fails the transport nor settles the call, the event stream
\* stays open and the rest of the buffer stays to be processed; and a chunked
\* body whose first record is such a payload ends normally with that token
\* followed by the tokens of the records after it.
C17_MalformedIsRaw ==
  /\ [][(esEvents' = esEvents + 1 /\ Malformed(esLast')) =>
          /\ tokens' = Append(tokens, esLast')
          /\ esOpen' /\ sm' = sm
          /\ UNCHANGED <<failed, smResult, pc>>]_vars
  /\ [][(Busy /\ StartsWith(buffer, DATA)
           /\ Malformed(Trim(SubSeq(buffer, Len(DATA) + 1,
                                    IndexOfNL(buffer) - 1)))) =>
          /\ tokens' = Append(tokens, Trim(SubSeq(buffer, Len(DATA) + 1,
                                                  IndexOfNL(buffer) - 1)))
          /\ buffer' = SubSeq(buffer, IndexOfNL(buffer) + 1, Len(buffer))
          /\ sm' = sm
          /\ UNCHANGED <<failed, smResult, pc>>]_vars
  /\ []((ReadFinished /\ Malformed(Trim(SentPayload))) =>
          /\ endedBy = "eof" /\ smResult = "resolved"
          /\ failed = <<"es">>
          /\ rsTokens = <<Trim(SentPayload), <<"z">> >>)

\* the body data:{x\nz\n was read to its end: the tokens {x and z
C17_Witness ==
  /\ ReadFinished
  /\ SentPayload = <<"{", "x">>
  /\ rsTokens = << <<"{", "x">>, <<"z">> >>
  /\ BotMsg.text = <<"{", "x", "z">>

\* C18 (as claimed): a POST or GET response that declares application/json
\* never fails the attempt; the call resolves with the answer member of the
\* decoded body as its only token, or with none when the answer is empty;
\* the body is not split into lines.
C18_JsonAlwaysSucceeds ==
  /\ caught # "badjson"
  /\ endedBy = "json" =>
       /\ smResult = "resolved"
       /\ JSONParse(body).ok
       /\ rsTokens = (IF JSONParse(body).answer # <<>>
                      THEN <<JSONParse(body).answer>> ELSE <<>>)

\* C18 (amended): a 2xx POST or GET response that declares application/json
\* fails the attempt exactly when its body is not JSON, and the next
\* transport is then requested as after any failure; when the body is JSON
\* the attempt succeeds, the call resolves, and the step that receives the
\* response makes one callback with the answer member of the decoded body,
\* or none when the answer is empty; the body is not split into lines.
C18_JsonBodyShortCircuits ==
  /\ [](caught = "badjson" => (~JSONParse(body).ok /\ sm = "get"))
  /\ [](endedBy = "json" =>
          /\ smResult = "resolved"
          /\ attempts[Len(attempts)] \in {"post", "get"}
          /\ JSONParse(body).ok
          /\ rsTokens = (IF JSONParse(body).answer # <<>>
                         THEN <<JSONParse(body).answer>> ELSE <<>>))
  /\ [][(endedBy # "json" /\ endedBy' = "json") =>
          /\ tokens' = tokens \o rsTokens'
          /\ accumulated' = accumulated \o JSONParse(body').answer]_vars

\* a JSON body written on three lines: the single token J, no token per line
C18_Witness ==
  /\ endedBy = "json"
  /\ IndexOfNL(body) # 0
  /\ rsTokens = << <<"J">> >>
  /\ tokens = << <<"J">> >>
  /\ BotMsg.text = <<"J">>

\* the state of the query in the terms of the state machine
Phase ==
  CASE pc = "stream" -> "Streaming"
    [] pc = "fallback" -> "FallbackRequested"
    [] pc = "sources" -> "Completed"
    [] pc = "idle" /\ nq > 0 -> "Completed"
    [] OTHER -> "Idle"

\* C19: a query moves only from Idle (or from the Completed state of the
\* query before it) to Streaming, from Streaming to Completed or to
\* FallbackRequested, and from FallbackRequested to Completed; and, time
\* passing, the timer firing when due and every fetch, read and request
\* settling, a query that has been accepted reaches the state in which
\* isLoading is false and isStreaming of its bot message is false.
C19_Terminates ==
  /\ [][Phase' # Phase =>
          <<Phase, Phase'>> \in { <<"Idle", "Streaming">>,
                                  <<"Completed", "Streaming">>,
                                  <<"Streaming", "Completed">>,
                                  <<"Streaming", "FallbackRequested">>,
                                  <<"FallbackRequested", "Completed">> }]_vars
  /\ (pc = "stream") ~> (nq > 0 /\ pc = "idle" /\ ~isLoading /\ ~BotMsg.isStreaming)

\* a streamMessage call has been made and has not settled
CallActive == sm \in {"es", "post", "postRead", "get", "getRead"}

\* C20: a submission made while isLoading is true changes nothing: no
\* message is added, no request is started and the query in flight goes on
\* as it was; the messages are the two of each accepted submission; and a
\* submission is accepted, and its streamMessage call made, only when
\* isLoading is false and the call of the query before it has settled, so at
\* most one call is active.
C20_OneInFlight ==
  /\ [](Len(messages) = 2 * nq)
  /\ [](CallActive => (isLoading /\ pc = "stream"))
  /\ [][(~ignored /\ ignored') =>
          UNCHANGED <<messages, isLoading, pc, botMsgId, nq, dateNow, sm,
                      attempts, sendCount, timerArmed, tokens, esOpen>>]_vars
  /\ [][nq' # nq =>
          /\ ~isLoading /\ ~CallActive /\ ~esOpen
          /\ nq' = nq + 1
          /\ isLoading']_vars

\* a submission was turned down while the stream of the first query was
\* delivering tokens: still the two messages of that query, the stream going
\* on
C20_Witness ==
  /\ ignored
  /\ pc = "stream"
  /\ CallActive
  /\ tokens # <<>>
  /\ nq = 1
  /\ Len(messages) = 2

\* position of a transport in the order event stream, POST, GET
Rank(t) == CHOOSE i \in 1..Len(TransportOrder) : TransportOrder[i] = t

\* the transports of the call that can still call the callback: the event
\* stream while it is open, POST or GET from its request to its end
Live ==
  (IF esOpen THEN {"es"} ELSE {})
    \cup (IF sm \in {"post", "postRead", "get", "getRead"}
          THEN {TransportOf(sm)} ELSE {})

\* C21: within one call at most one transport is live; the event stream is
\* closed in the step that starts the POST attempt, and a transport that is
\* started is the only live one; every callback is made by the transport the
\* call started last, so the tokens of the call are those of the event
\* stream, then those of POST, then those of GET, never interleaved.
C21_OneLiveTransport ==
  /\ [](Cardinality(Live) <= 1)
  /\ [][(attempts' # attempts /\ smResult' = "none") =>
          /\ Live' = {attempts'[Len(attempts')]}
          /\ (attempts'[Len(attempts')] \in {"post", "get"} => ~esOpen')]_vars
  /\ [][(tokens' # tokens /\ nq' = nq) =>
          /\ tokBy' = Append(tokBy, attempts[Len(attempts)])
          /\ Live = {attempts[Len(attempts)]}]_vars
  /\ [](\A i, j \in 1..Len(tokBy) : i < j => Rank(tokBy[i]) <= Rank(tokBy[j]))

\* a token of the event stream, which then failed, and a token of POST, which
\* then failed too: GET is live alone
C21_Witness ==
  /\ sm = "getRead"
  /\ Live = {"get"}
  /\ tokBy = <<"es", "post">>
  /\ tokens = << <<"a">>, <<"c">> >>

\* getSimilarDocuments has been called for the query: its request is pending
\* or has settled
LookupIssued == pc = "sources" \/ srcResult # "none"

\* C22: the source lookup is requested in the step in which streamMessage
\* resolves, with isStreaming of the bot message cleared by then; once it has
\* been requested the call has resolved, no transport is open, no token
\* arrives any more and no fallback request exists; a query whose call
\* rejected never has a lookup, and its sources are those of the fallback's
\* response.
C22_LookupAfterStream ==
  /\ [](LookupIssued =>
          /\ smResult = "resolved" /\ sm = "resolved" /\ ~esOpen
          /\ ~BotMsg.isStreaming
          /\ sendCount = 0 /\ fbResult.kind = "none")
  /\ [][(pc # "sources" /\ pc' = "sources") =>
          /\ smResult = "none" /\ smResult' = "resolved"
          /\ ~MsgOf(messages', botMsgId).isStreaming]_vars
  /\ [][(LookupIssued /\ nq' = nq) => UNCHANGED <<tokens, accumulated>>]_vars
  /\ [](smResult \in {"error", "timeout"} =>
          /\ ~LookupIssued
          /\ (fbResult.kind = "ok" => BotMsg.sources = fbResult.sources))

\* the stream has completed after two tokens and the lookup is pending
C22_Witness ==
  /\ pc = "sources"
  /\ srcResult = "none"
  /\ Len(tokens) = 2
  /\ ~BotMsg.isStreaming
  /\ BotMsg.sources = <<>>

\* C23: the step in which the source lookup fails changes no message and
\* issues no request, and it ends the query; after it the bot message has the
\* streamed text, isStreaming false, no sources and no error marking, and no
\* fallback request was ever made for the query.
C23_LookupFailureSilent ==
  /\ [][(srcResult # "err" /\ srcResult' = "err") =>
          /\ pc = "sources" /\ pc' = "idle"
          /\ UNCHANGED <<messages, sendCount, fbResult, smResult>>]_vars
  /\ [](srcResult = "err" =>
          /\ BotMsg.text = Concat(tokens)
          /\ ~BotMsg.isStreaming
          /\ BotMsg.sources = <<>>
          /\ ~BotMsg.isError
          /\ sendCount = 0 /\ fbResult.kind = "none"
          /\ smResult = "resolved")

\* the lookup failed after the token c had been streamed
C23_Witness ==
  /\ srcResult = "err"
  /\ pc = "idle"
  /\ tokens = << <<"c">> >>
  /\ BotMsg.text = <<"c">>
  /\ BotMsg.sources = <<>>

\* the concatenation of the first k tokens
Shown(k) == Concat(SubSeq(tokens, 1, k))

\* C24: every callback commits its update before anything else is processed:
\* a step makes at most one callback, and the text of the bot message after
\* it, which is the concatenation of the tokens so far, is rendered in that
\* step; so the texts rendered for a stream of n tokens are n, each longer
\* than the one before: the concatenations of the first 1, 2, ... n tokens.
C24_EveryTokenRendered ==
  /\ [][tokens' # tokens =>
          /\ Len(tokens') = Len(tokens) + 1
          /\ BotMsg'.text = Concat(tokens')
          /\ frames' = Append(frames, BotMsg'.text)]_vars
  /\ [](/\ Len(frames) = Len(tokens)
        /\ \A k \in 1..Len(frames) :
             /\ frames[k] = Shown(k)
             /\ Len(frames[k]) > (IF k = 1 THEN 0 ELSE Len(frames[k - 1])))

\* two records have arrived in one read; the token of the first is on the
\* page and the loop is about to process the second
C24_Witness ==
  /\ body = <<"x">> \o NL \o DATA \o SP \o JsonToken(Hello) \o NL
  /\ buffer = DATA \o SP \o JsonToken(Hello) \o NL
  /\ Busy
  /\ frames = << <<"x">> >>
  /\ BotMsg.text = <<"x">>

Senders(msgs) == [i \in 1..Len(msgs) |-> msgs[i].sender]

MsgIds(msgs) == [i \in 1..Len(msgs) |-> msgs[i].id]

\* C25: a step that accepts a submission puts two messages at the end of
\* what is displayed, the user's message with the trimmed text and below it
\* an empty bot message, and leaves all earlier messages as they were and
\* above them; so the display is user, bot, user, bot ... with two messages
\* per accepted submission; no other step adds, removes or moves a message;
\* and a submission that is turned down changes neither the messages nor
\* the state of the query in flight.
C25_TwoMessagesPerQuery ==
  /\ [][nq' # nq =>
          LET old == Displayed(messages)
              new == Displayed(messages')
          IN /\ nq' = nq + 1
             /\ Len(new) = Len(old) + 2
             /\ SubSeq(new, 1, Len(old)) = old
             /\ new[Len(old) + 1].sender = "user"
             /\ new[Len(old) + 1].text \in {Trim(text) : text \in ChatQuestions}
             /\ new[Len(old) + 2] = BaseBotMsg(botMsgId')]_vars
  /\ [][nq' = nq => MsgIds(messages') = MsgIds(messages)]_vars
  /\ [](/\ Len(messages) = 2 * nq
        /\ \A k \in 1..nq :
             /\ Displayed(messages)[2 * k - 1].sender = "user"
             /\ Displayed(messages)[2 * k].sender = "bot")
  /\ [][(~ignored /\ ignored') =>
          UNCHANGED <<messages, isLoading, pc, nq, sm, botMsgId, accumulated,
                      sendCount>>]_vars

\* two queries, the second one submitted with blanks before its text; a
\* submission was turned down during the second
C25_Witness ==
  /\ nq = 2
  /\ ignored
  /\ pc = "stream"
  /\ Senders(Displayed(messages)) = <<"user", "bot", "user", "bot">>
  /\ Displayed(messages)[3].text = <<"r">>
  /\ Displayed(messages)[2].text = <<"c">>

C28_LoadingUntilSettled ==
  /\ [](isLoading <=> pc \in {"stream", "sources", "fallback"})
  /\ [][(~isLoading /\ isLoading') => nq' = nq + 1]_vars
  /\ [][(isLoading /\ ~isLoading') =>
          /\ nq' = nq
          /\ \/ pc = "sources" /\ srcResult = "none" /\ srcResult' # "none"
             \/ pc = "fallback" /\ fbResult.kind = "none"
                  /\ fbResult'.kind # "none"]_vars
  /\ [][(~isLoading /\ ~isLoading') => messages' = messages]_vars
  /\ [][nq' # nq => ~isLoading]_vars
  /\ (pc \in {"sources", "fallback"}) ~> (~isLoading /\ pc = "idle")

\* the stream of the second query has completed and its lookup is pending:
\* still loading, and a submission has been turned down
C28_Witness ==
  /\ nq = 2
  /\ ignored
  /\ pc = "sources"
  /\ isLoading
  /\ smResult = "resolved"
  /\ srcResult = "none"
  /\ ~BotMsg.isStreaming

\* C26: a step that processes one record, an event or a line, makes at most
\* one callback, and exactly one when the record bears a token, whether the
\* callback returns or throws.
C26_OneCallPerRecord ==
  /\ [][Len(tokens') <= Len(tokens) + 1]_vars
  /\ [][(esEvents' = esEvents + 1 /\ DecodeEvent(esLast').kind = "emit") =>
          Len(tokens') = Len(tokens) + 1]_vars
  /\ [][(Busy /\ buffer' # buffer
           /\ DecodeLine(SubSeq(buffer, 1, IndexOfNL(buffer) - 1)).kind = "emit")
          => Len(tokens') = Len(tokens) + 1]_vars

\* payloads that bear no token: the empty one and the JSON object without a
\* non-empty token or text member
Tokenless(p) ==
  \/ p = <<>>
  \/ IsJsonObject(p) /\ JSONParse(p).token = <<>> /\ JSONParse(p).text = <<>>

\* C29: no callback is ever made with the empty text; an event whose payload
\* is empty or a JSON object with neither member causes no callback; and a
\* chunked body has caused no callback for its whitespace-only and empty
\* lines nor for a data: line with such a payload, only for the record that
\* follows them.
C29_NoEmptyToken ==
  /\ \A i \in 1..Len(tokens) : tokens[i] # <<>>
  /\ (EsFirstEvent /\ Tokenless(esLast)) => tokens = <<>>
  /\ (ReadFinished /\ Tokenless(Trim(SentPayload))) => rsTokens = << <<"z">> >>
  /\ (body \in BlankBodies /\ endedBy = "eof") => rsTokens = << <<"z">> >>

\* the body whose first two lines are blank was read to its end: the single
\* token z
C29_Witness ==
  /\ body \in BlankBodies
  /\ endedBy = "eof"
  /\ tokens = << <<"z">> >>
  /\ BotMsg.text = <<"z">>

\* the value is not a string, or is a string that is empty once trimmed
NotAQuestion(v) == v.type # "string" \/ Trim(v.val) = <<>>

\* C30: a call of streamMessage, sendMessage or getSimilarDocuments is
\* turned down exactly when its question or query is not a string or is
\* empty after trimming, or, for getSimilarDocuments, when k is not one of
\* 1..20; a call that is turned down has issued no request, opened no event
\* stream, made no callback and set no timer, and every other call has
\* issued its request.
C30_InvalidRejectedFirst ==
  api.outcome # "none" =>
    LET bad == \/ NotAQuestion(api.arg)
               \/ api.fn = "getSimilarDocuments" /\ api.k \notin 1..20
    IN /\ bad <=> api.outcome = "invalid"
       /\ bad => /\ api.requests = 0 /\ sendCount = 0
                 /\ ~esOpen /\ attempts = <<>>
                 /\ tokens = <<>> /\ tokenCount = 0
                 /\ ~timerArmed
       /\ ~bad => api.requests = 1

\* streamMessage was called with a question of blanks only
C30_Witness ==
  /\ api.fn = "streamMessage"
  /\ api.arg = Str(<<"\t", "\n">>)
  /\ api.outcome = "invalid"
  /\ ~timerArmed /\ sm = "rejected" /\ attempts = <<>>

====
